---- MODULE Spec2Model ----
(***************************************************************************)
(* Loan lifecycle and wallet ledger of the p2p lending platform.           *)
(*                                                                         *)
(* The durable store holds the tables Loan, Offer, Payment, Wallet and     *)
(* Transaction.  Request handlers and the celery worker run concurrently.  *)
(* Every ORM statement that reads the store is a step of its own.  The     *)
(* writes a handler issues inside a transaction.atomic() block become      *)
(* visible together when the block commits, so the part of a block from    *)
(* its first UPDATE to its commit is one step (READ COMMITTED with row     *)
(* locks: an uncommitted write is invisible to the other handlers, a       *)
(* second writer of a row waits for the commit of the first, Model.save()  *)
(* writes every column of the in-memory object, and nothing in the code    *)
(* locks a row when it reads it).  A handler's return value is an operator *)
(* of the state it ran in (the ...Result definitions).  Money is counted   *)
(* in cents and dates in months.                                           *)
(***************************************************************************)
EXTENDS Integers, Sequences, FiniteSets, Bags, TLC

(* ------------------------------ bounds --------------------------------- *)
MaxDay == 2
MaxWalletOps == 2

(* ------------------------- program constants --------------------------- *)
PlatformFee == 375

(* ------------------------------ inputs --------------------------------- *)
Procs == {1, 2}
Borrowers == {"b1"}
Lenders == {"l1", "l2"}
Users == Borrowers \cup Lenders
LoanIds == {1}
\* the loan_id a caller passes: an id that exists or one that never does
LoanArgs == {1, 2}
OfferIds == {1, 2}
OfferArgs == OfferIds \cup {3}
LoanAmounts == {1000}
Terms == {2}
LoanRates == {12}
OfferRates == {0, 12}
OfferRateArgs == OfferRates \cup {0 - 1, 51}
DepositAmounts == {2375}
WithdrawAmounts == {1375, 2375}
WalletUsers == {"b1", "l1"}

NoUser == "none"
NoDate == 0 - 1
\* Wallet.objects.get raising DoesNotExist: no row for the user
NoWallet == [exists |-> FALSE, balance |-> 0]

\* User.role
role(u) == IF u \in Borrowers THEN "BORROWER" ELSE "LENDER"

VARIABLES loans, offers, payments, wallets, ledger, today, procs, cache

vars == <<loans, offers, payments, wallets, ledger, today, procs, cache>>
store == <<loans, offers, payments, wallets, ledger>>

(* ------------------------------ helpers -------------------------------- *)
RECURSIVE Gcd(_, _)
Gcd(a, b) == IF b = 0 THEN a ELSE Gcd(b, a % b)

RECURSIVE Pow(_, _)
Pow(x, n) == IF n = 0 THEN 1 ELSE x * Pow(x, n - 1)

\* Decimal.quantize(Decimal('0.01')) of num/den cents under the default
\* decimal context (ROUND_HALF_EVEN); num >= 0, den > 0
QuantizeCents(num, den) ==
    LET q == num \div den
        r == num % den
    IN  IF 2 * r > den THEN q + 1
        ELSE IF 2 * r < den THEN q
        ELSE IF q % 2 = 0 THEN q ELSE q + 1

\* a Decimal as the fraction num/den of cents
Cents(num, den) == [num |-> num, den |-> den]

(* Decimal arithmetic beyond 32 bits: a natural number as the sequence of its
   base-10000 digits, lowest first; <<>> is 0.  Python's Decimal carries 28
   significant digits, which holds every intermediate value of the rates and
   terms used here exactly. *)
Base == 10000

RECURSIVE BigOfInt(_)
BigOfInt(n) == IF n = 0 THEN <<>> ELSE <<n % Base>> \o BigOfInt(n \div Base)

RECURSIVE BigTrim(_)
BigTrim(x) ==
    IF x = <<>> THEN x
    ELSE IF x[Len(x)] = 0 THEN BigTrim(SubSeq(x, 1, Len(x) - 1)) ELSE x

BigHead(x) == IF x = <<>> THEN 0 ELSE Head(x)
BigTail(x) == IF x = <<>> THEN <<>> ELSE Tail(x)

RECURSIVE BigAddCarry(_, _, _)
BigAddCarry(x, y, carry) ==
    IF x = <<>> /\ y = <<>> THEN BigOfInt(carry)
    ELSE LET s == BigHead(x) + BigHead(y) + carry
         IN  <<s % Base>> \o BigAddCarry(BigTail(x), BigTail(y), s \div Base)

BigAdd(x, y) == BigTrim(BigAddCarry(x, y, 0))

\* x - y for x >= y
RECURSIVE BigSubBorrow(_, _, _)
BigSubBorrow(x, y, borrow) ==
    IF x = <<>> THEN <<>>
    ELSE LET d == Head(x) - BigHead(y) - borrow
         IN  IF d < 0 THEN <<d + Base>> \o BigSubBorrow(Tail(x), BigTail(y), 1)
             ELSE <<d>> \o BigSubBorrow(Tail(x), BigTail(y), 0)

BigSub(x, y) == BigTrim(BigSubBorrow(x, y, 0))

\* x times one digit k < Base
RECURSIVE BigMulDigit(_, _, _)
BigMulDigit(x, k, carry) ==
    IF x = <<>> THEN BigOfInt(carry)
    ELSE LET s == Head(x) * k + carry
         IN  <<s % Base>> \o BigMulDigit(Tail(x), k, s \div Base)

RECURSIVE BigMul(_, _)
BigMul(x, y) ==
    IF y = <<>> \/ x = <<>> THEN <<>>
    ELSE BigAdd(BigMulDigit(x, Head(y), 0), <<0>> \o BigMul(x, Tail(y)))

RECURSIVE BigPow(_, _)
BigPow(x, n) == IF n = 0 THEN <<1>> ELSE BigMul(x, BigPow(x, n - 1))

\* x <= y on the digits from position i down
RECURSIVE BigLeqFrom(_, _, _)
BigLeqFrom(x, y, i) ==
    IF i = 0 THEN TRUE
    ELSE IF x[i] # y[i] THEN x[i] < y[i]
    ELSE BigLeqFrom(x, y, i - 1)

BigLeq(x, y) ==
    LET a == BigTrim(x)
        b == BigTrim(y)
    IN  IF Len(a) # Len(b) THEN Len(a) < Len(b) ELSE BigLeqFrom(a, b, Len(a))

\* the quotient num \div den, below 2^(k+1), found bit by bit from bit k down
RECURSIVE BigQuotient(_, _, _, _)
BigQuotient(num, den, k, q) ==
    IF k < 0 THEN q
    ELSE IF BigLeq(BigMul(den, BigOfInt(q + Pow(2, k))), num)
         THEN BigQuotient(num, den, k - 1, q + Pow(2, k))
         ELSE BigQuotient(num, den, k - 1, q)

\* a monthly_payment that cuts the quotient off after the second decimal
TruncateCents(num, den) == BigQuotient(num, den, 29, 0)

\* Decimal.quantize(Decimal('0.01')) of num/den cents, ROUND_HALF_EVEN, for
\* num and den beyond 32 bits
BigQuantizeCents(num, den) ==
    LET q == BigQuotient(num, den, 29, 0)
        r2 == BigMulDigit(BigSub(num, BigMul(den, BigOfInt(q))), 2, 0)
    IN  IF ~BigLeq(r2, den) THEN q + 1
        ELSE IF BigLeq(r2, den) /\ ~BigLeq(den, r2) THEN q
        ELSE IF q % 2 = 0 THEN q ELSE q + 1

\* the monthly rate rate/100/12 as the fraction a/b in lowest terms
MonthlyRate(rate) ==
    LET g == Gcd(rate, 1200) IN [a |-> rate \div g, b |-> 1200 \div g]

\* amount * r * (1 + r)^n / ((1 + r)^n - 1) in cents as numerator over
\* denominator, with r = a/b: amount * a * (a + b)^n over b * ((a + b)^n - b^n)
AmortizationNum(amount, rate, term) ==
    LET r == MonthlyRate(rate)
    IN  BigMul(BigOfInt(amount), BigMul(BigOfInt(r.a), BigPow(BigOfInt(r.a + r.b), term)))
AmortizationDen(rate, term) ==
    LET r == MonthlyRate(rate)
    IN  BigMul(BigOfInt(r.b),
               BigSub(BigPow(BigOfInt(r.a + r.b), term), BigPow(BigOfInt(r.b), term)))

\* Loan.monthly_payment.  The result is quantized only when the rate is not
\* zero; otherwise it is the quotient amount / term_months as it is.
monthly_payment(amount, rate, term) ==
    IF term = 0 THEN Cents(0, 1)
    ELSE IF rate = 0 THEN Cents(amount, term)
    ELSE Cents(BigQuantizeCents(AmortizationNum(amount, rate, term),
                                AmortizationDen(rate, term)), 1)

\* how the database rounds a value onto a column of two decimal places: the
\* backend is not part of the repository, a tie goes to the even cent or up
DecimalRoundings == {"ROUND_HALF_EVEN", "ROUND_HALF_UP"}

\* Payment.amount = DecimalField(decimal_places=2): the cents a value is
\* stored as
PaymentAmountColumn(value, rounding) ==
    LET q == value.num \div value.den
        r == value.num % value.den
    IN  IF 2 * r = value.den /\ rounding = "ROUND_HALF_UP" THEN q + 1
        ELSE QuantizeCents(value.num, value.den)

\* Transaction.reference_id
NoRef == [kind |-> "none", loan |-> 0, num |-> 0]
LoanRef(l) == [kind |-> "loan", loan |-> l, num |-> 0]
FeeRef(l) == [kind |-> "loan_fee", loan |-> l, num |-> 0]
PaymentRef(l, n) == [kind |-> "payment", loan |-> l, num |-> n]

\* one row of the Transaction table
Entry(u, type, amount, ref) ==
    [user |-> u, type |-> type, amount |-> amount, ref |-> ref]

\* TransactionRepository.create_transaction
create_transaction(lg, u, type, amount, ref) ==
    lg (+) SetToBag({Entry(u, type, amount, ref)})

\* a check that only asks for a positive balance
has_any_balance(wallet, amount) == wallet.balance > 0

\* WalletRepository.has_sufficient_balance
has_sufficient_balance(wallet, amount) == wallet.balance >= amount

\* WalletRepository.update_balance on the in-memory wallet object
update_balance(wallet, amount, operation) ==
    IF operation = "add" THEN [wallet EXCEPT !.balance = @ + amount]
    ELSE IF operation = "subtract" THEN [wallet EXCEPT !.balance = @ - amount]
    ELSE wallet

NoLoanRec == [borrower |-> NoUser, lender |-> NoUser, amount |-> 0, term |-> 0,
              rate |-> 0, status |-> "NONE", funded_at |-> NoDate]
NoOfferRec == [loan |-> 0, lender |-> NoUser, rate |-> 0, accepted |-> FALSE]
NoPay == [num |-> 0, amount |-> 0, due |-> NoDate]

\* a handler between two calls; the other fields are the locals of the
\* handler that is running
IdleRec == [pc |-> "idle", user |-> NoUser, loan |-> 0, offer |-> 0,
            amt |-> 0, rate |-> 0, rLoan |-> NoLoanRec, rOffer |-> NoOfferRec,
            rPay |-> NoPay, rFrom |-> NoWallet, rTo |-> NoWallet, creates |-> NoUser,
            snap |-> {}, day |-> 0, found |-> 0, updated |-> 0, to |-> NoUser]

(* ------------------------- the cache collaborator ---------------------- *)
\* CacheKeys: the keys of the loan caches
AvailableLoansKey == [kind |-> "loans:available", loan |-> 0, user |-> NoUser]
LoanDetailKey(l) == [kind |-> "loan:detail", loan |-> l, user |-> NoUser]
UserLoansKey(u) == [kind |-> "user:loans", loan |-> 0, user |-> u]
LoanOffersKey(l) == [kind |-> "loan:offers", loan |-> l, user |-> NoUser]
PaymentScheduleKey(l) == [kind |-> "loan:payments", loan |-> l, user |-> NoUser]

\* CacheManager.delete of every key of K, CacheManager.set of one key
CacheDelete(c, K) == [k \in DOMAIN c \ K |-> c[k]]
CacheSet(c, k, v) == [x \in DOMAIN c \cup {k} |-> IF x = k THEN v ELSE c[x]]

\* LoanCache.invalidate_user_loans under "if borrower_id:" / "if lender_id:"
UserLoansKeys(u) == IF u = NoUser THEN {} ELSE {UserLoansKey(u)}

\* LoanCache.invalidate_loan_related_caches: the keys it deletes
invalidate_loan_related_caches(l, borrower, lender) ==
    {LoanDetailKey(l), AvailableLoansKey, LoanOffersKey(l), PaymentScheduleKey(l)}
        \cup UserLoansKeys(borrower) \cup UserLoansKeys(lender)

\* the post_save receivers of Loan, Offer and Payment: the keys they delete
invalidate_loan_cache_on_save(l, borrower, lender) ==
    {AvailableLoansKey, LoanDetailKey(l)}
        \cup UserLoansKeys(borrower) \cup UserLoansKeys(lender)
invalidate_loan_cache_on_offer_change(l, accepted) ==
    {LoanDetailKey(l)} \cup (IF accepted THEN {AvailableLoansKey} ELSE {})
invalidate_loan_cache_on_payment_change(l, created) ==
    {LoanDetailKey(l)} \cup (IF ~created THEN {AvailableLoansKey} ELSE {})

\* a lookup of the loan that tries the cache first, as get_loan_details does
get_loan_cached(l) ==
    IF LoanDetailKey(l) \in DOMAIN cache THEN cache[LoanDetailKey(l)]
    ELSE IF l \in 1..Len(loans) THEN loans[l] ELSE NoLoanRec

\* LoanRepository.get_loan_by_id
LoanExists(l) == l \in 1..Len(loans)
get_loan_by_id(l) == IF LoanExists(l) THEN loans[l] ELSE NoLoanRec

\* OfferRepository.get_offer_by_id
OfferExists(o) == o \in 1..Len(offers)
get_offer_by_id(o) == IF OfferExists(o) THEN offers[o] ELSE NoOfferRec

\* OfferRepository.check_existing_offer
check_existing_offer(l, u) ==
    \E o \in 1..Len(offers) : offers[o].loan = l /\ offers[o].lender = u

\* WalletRepository.get_wallet_by_user: the committed row, NoWallet when the
\* user has none
get_wallet_by_user(u) == wallets[u]

\* WalletRepository.get_or_create_wallet: the row it returns, inserted with
\* the default balance 0 when absent
get_or_create_wallet(u) ==
    IF wallets[u] = NoWallet THEN [exists |-> TRUE, balance |-> 0] ELSE wallets[u]

\* a row inserted by get_or_create_wallet inside a block that has not
\* committed keeps the other get_or_create_wallet calls for that user waiting
PendingCreate(p, u) == \E q \in Procs \ {p} : procs[q].creates = u
CanGetOrCreate(p, u) == wallets[u] = NoWallet => ~PendingCreate(p, u)
Creates(u) == IF wallets[u] = NoWallet THEN u ELSE NoUser

\* WalletService.get_wallet_balance
get_wallet_balance(u) == IF wallets[u] = NoWallet THEN 0 ELSE wallets[u].balance

\* WalletService.check_balance
check_balance(u, required) ==
    /\ get_wallet_by_user(u) # NoWallet
    /\ has_sufficient_balance(get_wallet_by_user(u), required)

\* committed and in-flight DEPOSIT and WITHDRAWAL rows
WalletOps ==
    BagCardinality([e \in {x \in DOMAIN ledger : x.type \in {"DEPOSIT", "WITHDRAWAL"}}
                      |-> ledger[e]])
    + Cardinality({q \in Procs : procs[q].pc \in {"d2", "w2"}})

Idle(p) == procs[p].pc = "idle"
Set(p, rec) == procs' = [procs EXCEPT ![p] = rec]
Return(p) == procs' = [procs EXCEPT ![p] = IdleRec]

(* ------------------------------- Init ---------------------------------- *)
Init ==
    /\ loans = <<>>
    /\ offers = <<>>
    /\ payments = <<>>
    /\ wallets = [u \in Users |-> NoWallet]
    /\ ledger = EmptyBag
    /\ today = 0
    /\ cache = <<>>
    /\ procs = [p \in Procs |-> IdleRec]

(* --------------------------- LoanService ------------------------------- *)
CreateLoanResult(u) == IF role(u) # "BORROWER" THEN "RolePermission" ELSE "ok"

\* create_loan: Loan.objects.create fires post_save, then
\* LoanCache.invalidate_available_loans
CreateLoanInvalidations(l, u) ==
    invalidate_loan_cache_on_save(l, u, NoUser) \cup {AvailableLoansKey}

\* LoanService.create_loan: the role check, then one INSERT
CreateLoan(p, u, amount, term, rate) ==
    /\ Idle(p)
    /\ IF CreateLoanResult(u) # "ok"
       THEN UNCHANGED <<loans, payments>>
       ELSE /\ Len(loans) + 1 \in LoanIds
            /\ loans' = Append(loans,
                  [borrower |-> u, lender |-> NoUser, amount |-> amount,
                   term |-> term, rate |-> rate, status |-> "REQUESTED",
                   funded_at |-> NoDate])
            /\ payments' = Append(payments, <<>>)
    /\ UNCHANGED <<offers, wallets, ledger, today, procs>>
    /\ cache' = IF CreateLoanResult(u) # "ok" THEN cache
                ELSE CacheDelete(cache, CreateLoanInvalidations(Len(loans) + 1, u))

(* --------------------------- WalletService ----------------------------- *)
\* WalletService.deposit_funds, get_or_create_wallet: the read of the wallet
\* row (inserted with balance 0 when absent)
DepositRead(p, u, amount) ==
    /\ Idle(p)
    /\ WalletOps < MaxWalletOps
    /\ CanGetOrCreate(p, u)
    /\ Set(p, [IdleRec EXCEPT !.pc = "d2", !.user = u, !.amt = amount,
                              !.rTo = get_or_create_wallet(u),
                              !.creates = Creates(u)])
    /\ UNCHANGED <<loans, offers, payments, wallets, ledger, today, cache>>

\* deposit_funds: update_balance, create_transaction, commit
DepositCommit(p) ==
    /\ procs[p].pc = "d2"
    /\ LET c == procs[p]
       IN  /\ wallets' = [wallets EXCEPT ![c.user] = update_balance(c.rTo, c.amt, "add")]
           /\ ledger' = create_transaction(ledger, c.user, "DEPOSIT", c.amt, NoRef)
    /\ Return(p)
    /\ UNCHANGED <<loans, offers, payments, today, cache>>

\* a withdraw_funds that fetches the wallet with get_or_create_wallet
WithdrawReadCreates(u, amount) ==
    IF ~has_sufficient_balance(get_or_create_wallet(u), amount)
    THEN "InsufficientFunds" ELSE "continue"

WithdrawReadResult(u, amount) ==
    IF get_wallet_by_user(u) = NoWallet THEN "WalletNotFound"
    ELSE IF ~has_sufficient_balance(get_wallet_by_user(u), amount)
         THEN "InsufficientFunds"
         ELSE "continue"

\* WalletService.withdraw_funds, the read of the wallet and the two checks
WithdrawRead(p, u, amount) ==
    /\ Idle(p)
    /\ WalletOps < MaxWalletOps
    /\ IF WithdrawReadResult(u, amount) = "continue"
       THEN Set(p, [IdleRec EXCEPT !.pc = "w2", !.user = u, !.amt = amount,
                                   !.rFrom = get_wallet_by_user(u)])
       ELSE Return(p)
    /\ UNCHANGED <<loans, offers, payments, wallets, ledger, today, cache>>

\* withdraw_funds: update_balance, create_transaction, commit
WithdrawCommit(p) ==
    /\ procs[p].pc = "w2"
    /\ LET c == procs[p]
       IN  /\ wallets' = [wallets EXCEPT ![c.user] = update_balance(c.rFrom, c.amt, "subtract")]
           /\ ledger' = create_transaction(ledger, c.user, "WITHDRAWAL", c.amt, NoRef)
    /\ Return(p)
    /\ UNCHANGED <<loans, offers, payments, today, cache>>

(* ---------------------------- OfferService ----------------------------- *)
\* a serializer that lets every rate through
validate_any_rate(value) == TRUE

\* CreateOfferSerializer.validate_annual_interest_rate
validate_annual_interest_rate(value) == value >= 0 /\ value <= 50

\* the create_offer view: the role check, then serializer.is_valid()
CreateOfferViewResult(u, rate) ==
    IF role(u) # "LENDER" THEN "RolePermission"
    ELSE IF ~validate_annual_interest_rate(rate) THEN "ValidationError"
    ELSE "continue"

CreateOfferReadResult(l, u) ==
    IF role(u) # "LENDER" THEN "RolePermission"
    ELSE IF ~LoanExists(l) THEN "LoanNotFound"
    ELSE IF get_loan_by_id(l).status # "REQUESTED" THEN "InvalidState"
    ELSE IF get_loan_by_id(l).borrower = u THEN "OwnLoan"
    ELSE "continue"

\* the create_offer view and OfferService.create_offer, the role check and
\* the read of the loan
CreateOfferRead(p, l, u, rate) ==
    /\ Idle(p)
    /\ IF /\ CreateOfferViewResult(u, rate) = "continue"
          /\ CreateOfferReadResult(l, u) = "continue"
       THEN Set(p, [IdleRec EXCEPT !.pc = "co2", !.user = u, !.loan = l,
                                   !.rate = rate, !.rLoan = get_loan_by_id(l)])
       ELSE Return(p)
    /\ UNCHANGED <<loans, offers, payments, wallets, ledger, today, cache>>

CreateOfferCheckResult(l, u) ==
    IF check_existing_offer(l, u) THEN "AlreadyExists" ELSE "continue"

\* create_offer, the check_existing_offer query
CreateOfferCheck(p) ==
    /\ procs[p].pc = "co2"
    /\ IF CreateOfferCheckResult(procs[p].loan, procs[p].user) = "continue"
       THEN Set(p, [procs[p] EXCEPT !.pc = "co3"])
       ELSE Return(p)
    /\ UNCHANGED <<loans, offers, payments, wallets, ledger, today, cache>>

\* an insert that no uniqueness constraint guards
CreateOfferInsertUnguarded(l, u) == "ok"

\* Offer.objects.create under unique_together (loan, lender)
CreateOfferInsertResult(l, u) ==
    IF check_existing_offer(l, u) THEN "IntegrityError" ELSE "ok"

\* create_offer: Offer.objects.create fires post_save of Offer
CreateOfferInvalidations(l) == invalidate_loan_cache_on_offer_change(l, FALSE)

\* create_offer, OfferRepository.create_offer
CreateOfferInsert(p) ==
    /\ procs[p].pc = "co3"
    /\ LET c == procs[p]
       IN  IF CreateOfferInsertResult(c.loan, c.user) = "ok"
           THEN offers' = Append(offers, [loan |-> c.loan, lender |-> c.user,
                                          rate |-> c.rate, accepted |-> FALSE])
           ELSE UNCHANGED offers
    /\ Return(p)
    /\ UNCHANGED <<loans, payments, wallets, ledger, today>>
    /\ cache' = IF CreateOfferInsertResult(procs[p].loan, procs[p].user) # "ok" THEN cache
                ELSE CacheDelete(cache, CreateOfferInvalidations(procs[p].loan))

\* the accept_offer view, serializer.is_valid():
\* AcceptOfferSerializer.validate_offer_id
AcceptOfferViewResult(o) ==
    IF ~OfferExists(o) THEN "OfferNotFound"
    ELSE IF get_offer_by_id(o).accepted THEN "AlreadyAccepted"
    ELSE "continue"

AcceptOfferReadResult(l, u) ==
    IF ~LoanExists(l) THEN "LoanNotFound"
    ELSE IF get_loan_by_id(l).borrower # u THEN "Unauthorized"
    ELSE IF get_loan_by_id(l).status # "REQUESTED" THEN "InvalidState"
    ELSE "continue"

\* the accept_offer view and OfferService.accept_offer, the read of the loan
\* and the checks on it
AcceptOfferRead(p, l, o, u) ==
    /\ Idle(p)
    /\ IF /\ AcceptOfferViewResult(o) = "continue"
          /\ AcceptOfferReadResult(l, u) = "continue"
       THEN Set(p, [IdleRec EXCEPT !.pc = "a2", !.user = u, !.loan = l,
                                   !.offer = o, !.rLoan = get_loan_by_id(l)])
       ELSE Return(p)
    /\ UNCHANGED <<loans, offers, payments, wallets, ledger, today, cache>>

\* an accept_offer that takes an offer of any loan
AcceptOfferGetAnyLoan(l, o) ==
    IF ~OfferExists(o) THEN "OfferNotFound"
    ELSE IF get_offer_by_id(o).accepted THEN "AlreadyAccepted"
    ELSE "continue"

AcceptOfferGetResult(l, o) ==
    IF ~OfferExists(o) \/ get_offer_by_id(o).loan # l THEN "OfferNotFound"
    ELSE IF get_offer_by_id(o).accepted THEN "AlreadyAccepted"
    ELSE "continue"

\* accept_offer, the read of the offer and the checks on it
AcceptOfferGet(p) ==
    /\ procs[p].pc = "a2"
    /\ IF AcceptOfferGetResult(procs[p].loan, procs[p].offer) = "continue"
       THEN Set(p, [procs[p] EXCEPT !.pc = "a3",
                                    !.rOffer = get_offer_by_id(procs[p].offer)])
       ELSE Return(p)
    /\ UNCHANGED <<loans, offers, payments, wallets, ledger, today, cache>>

\* LoanRepository.update_loan: setattr on the in-memory loan, then save() of
\* every column
update_loan(loan, lender, rate, status, funded_at) ==
    [loan EXCEPT !.lender = lender, !.rate = rate, !.status = status,
                 !.funded_at = funded_at]

\* OfferRepository.accept_offer: save() of the in-memory offer
accept_offer(offer) == [offer EXCEPT !.accepted = TRUE]

\* accept_offer: offer.save() and loan.save() fire post_save of Offer and Loan
AcceptOfferInvalidations(c) ==
    invalidate_loan_cache_on_offer_change(c.rOffer.loan, TRUE)
        \cup invalidate_loan_cache_on_save(c.loan, c.rLoan.borrower, c.rOffer.lender)

\* accept_offer, the atomic block: Offer.save(), Loan.save(), commit
AcceptOfferCommit(p) ==
    /\ procs[p].pc = "a3"
    /\ LET c == procs[p]
       IN  /\ offers' = [offers EXCEPT ![c.offer] = accept_offer(c.rOffer)]
           /\ loans' = [loans EXCEPT ![c.loan] =
                  update_loan(c.rLoan, c.rOffer.lender, c.rOffer.rate,
                              "PENDING_FUNDING", c.rLoan.funded_at)]
    /\ Return(p)
    /\ UNCHANGED <<payments, wallets, ledger, today>>
    /\ cache' = CacheDelete(cache, AcceptOfferInvalidations(procs[p]))

(* ------------------------ transfer_funds pieces ------------------------ *)
\* WalletService.transfer_funds, the checks after get_wallet_by_user(from_user)
\* and get_or_create_wallet(to_user)
TransferReadResult(from, amount) ==
    IF get_wallet_by_user(from) = NoWallet THEN "SenderWalletNotFound"
    ELSE IF ~has_sufficient_balance(get_wallet_by_user(from), amount)
         THEN "InsufficientFunds"
         ELSE "continue"

\* the wallet table once a transfer_funds that returned an error commits: the
\* row get_or_create_wallet inserted for the receiver stays
WalletsCreated(to) == [wallets EXCEPT ![to] = get_or_create_wallet(to)]

\* transfer_funds, the two update_balance calls: each saves its own in-memory
\* wallet object, the sender's first
TransferBalances(w, from, to, rFrom, rTo, amount) ==
    LET w1 == [w EXCEPT ![from] = update_balance(rFrom, amount, "subtract")]
    IN  [w1 EXCEPT ![to] = update_balance(rTo, amount, "add")]

\* a transfer that records the sender's row only
TransferDebitOnly(lg, from, to, amount, type, ref) ==
    create_transaction(lg, from, type, 0 - amount, ref)

\* transfer_funds, the two create_transaction calls
TransferEntries(lg, from, to, amount, type, ref) ==
    create_transaction(create_transaction(lg, from, type, 0 - amount, ref),
                       to, type, amount, ref)

(* ------------------------- LoanFundingService -------------------------- *)
FundLoanReadResult(l, u) ==
    IF ~LoanExists(l) THEN "LoanNotFound"
    ELSE IF get_loan_by_id(l).lender # u THEN "Unauthorized"
    ELSE IF get_loan_by_id(l).status # "PENDING_FUNDING" THEN "InvalidState"
    ELSE "continue"

\* LoanFundingService.fund_loan, the read of the loan and the checks on it
FundLoanRead(p, l, u) ==
    /\ Idle(p)
    /\ IF FundLoanReadResult(l, u) = "continue"
       THEN Set(p, [IdleRec EXCEPT !.pc = "f2", !.user = u, !.loan = l,
                                   !.rLoan = get_loan_by_id(l)])
       ELSE Return(p)
    /\ UNCHANGED <<loans, offers, payments, wallets, ledger, today, cache>>

\* a fund_loan that does not look at the lender's balance beforehand
FundLoanCheckSkipped(c) == "continue"

FundLoanCheckResult(c) ==
    IF ~check_balance(c.user, c.rLoan.amount + PlatformFee)
    THEN "InsufficientFunds" ELSE "continue"

\* fund_loan, check_balance(lender, loan.amount + platform_fee)
FundLoanCheck(p) ==
    /\ procs[p].pc = "f2"
    /\ IF FundLoanCheckResult(procs[p]) = "continue"
       THEN Set(p, [procs[p] EXCEPT !.pc = "f3"])
       ELSE Return(p)
    /\ UNCHANGED <<loans, offers, payments, wallets, ledger, today, cache>>

FundLoanTransferReadResult(c) == TransferReadResult(c.user, c.rLoan.amount)

\* fund_loan, transaction.atomic() is entered and transfer_funds reads both
\* wallets; on an error result fund_loan returns from inside the block, which
\* commits what the block did so far
FundLoanTransferRead(p) ==
    /\ procs[p].pc = "f3"
    /\ LET c == procs[p]
           to == c.rLoan.borrower
       IN  /\ CanGetOrCreate(p, to)
           /\ IF FundLoanTransferReadResult(c) = "continue"
              THEN /\ UNCHANGED wallets
                   /\ Set(p, [c EXCEPT !.pc = "f4",
                                !.rFrom = get_wallet_by_user(c.user),
                                !.rTo = get_or_create_wallet(to),
                                !.creates = Creates(to)])
              ELSE /\ wallets' = WalletsCreated(to)
                   /\ Return(p)
    /\ UNCHANGED <<loans, offers, payments, ledger, today, cache>>

\* Payment.objects.bulk_create: the rows the objects are stored as
bulk_create(objs, rounding) ==
    [n \in DOMAIN objs |->
        [objs[n] EXCEPT !.amount = PaymentAmountColumn(objs[n].amount, rounding)]]

\* Payment.generate_payment_schedule for the in-memory loan: the objects it
\* builds, indexed by payment_number
PaymentObjects(loan) ==
    [month \in 1..loan.term |->
        [due |-> (IF loan.funded_at # NoDate THEN loan.funded_at ELSE today) + month,
         amount |-> monthly_payment(loan.amount, loan.rate, loan.term),
         status |-> "PENDING", paid_at |-> NoDate]]

generate_payment_schedule(loan, rounding) ==
    bulk_create(PaymentObjects(loan), rounding)

\* bulk_create under unique_together (loan, payment_number)
ScheduleConflict(l, schedule) ==
    \E n \in DOMAIN schedule : n \in DOMAIN payments[l]

\* the lender's wallet as deduct_platform_fee reads it back inside the
\* block, after the transfer's two saves
FundLoanFeeWallet(c) ==
    TransferBalances(wallets, c.user, c.rLoan.borrower, c.rFrom, c.rTo,
                     c.rLoan.amount)[c.user]

FundLoanCommitResult(c) ==
    IF ~has_sufficient_balance(FundLoanFeeWallet(c), PlatformFee)
    THEN "InsufficientFundsFee"
    ELSE IF ScheduleConflict(c.loan,
                PaymentObjects(
                    update_loan(c.rLoan, c.rLoan.lender, c.rLoan.rate, "FUNDED", today)))
    THEN "IntegrityError"
    ELSE "ok"

\* a fund_loan that tells the cache nothing
FundLoanNoInvalidations(c) == {}

\* fund_loan: loan.save() in update_loan fires post_save of Loan, and after
\* generate_payment_schedule comes LoanCache.invalidate_loan_related_caches;
\* bulk_create fires no signal, and what the cache was told is not taken back
\* when the block rolls back
FundLoanInvalidations(c) ==
    IF FundLoanCommitResult(c) = "InsufficientFundsFee" THEN {}
    ELSE IF FundLoanCommitResult(c) = "IntegrityError"
    THEN invalidate_loan_cache_on_save(c.loan, c.rLoan.borrower, c.rLoan.lender)
    ELSE invalidate_loan_cache_on_save(c.loan, c.rLoan.borrower, c.rLoan.lender)
            \cup invalidate_loan_related_caches(c.loan, c.rLoan.borrower, c.user)

\* fund_loan, the rest of the atomic block: the transfer's writes,
\* deduct_platform_fee, update_loan, generate_payment_schedule, commit
FundLoanCommit(p) ==
    /\ procs[p].pc = "f4"
    /\ LET c == procs[p]
           from == c.user
           to == c.rLoan.borrower
           w1 == TransferBalances(wallets, from, to, c.rFrom, c.rTo, c.rLoan.amount)
           lg1 == TransferEntries(ledger, from, to, c.rLoan.amount,
                                  "LOAN_FUNDING", LoanRef(c.loan))
           w2 == [w1 EXCEPT ![from] = update_balance(w1[from], PlatformFee, "subtract")]
           lg2 == create_transaction(lg1, from, "PLATFORM_FEE", 0 - PlatformFee,
                                     FeeRef(c.loan))
           loan == update_loan(c.rLoan, c.rLoan.lender, c.rLoan.rate, "FUNDED", today)
       IN  IF FundLoanCommitResult(c) = "InsufficientFundsFee"
           THEN \* return {'success': False} inside the block: commit
                /\ wallets' = w1
                /\ ledger' = lg1
                /\ UNCHANGED <<loans, payments>>
           ELSE IF FundLoanCommitResult(c) = "IntegrityError"
           THEN \* the exception leaves the block: rollback
                UNCHANGED <<loans, payments, wallets, ledger>>
           ELSE /\ wallets' = w2
                /\ ledger' = lg2
                /\ loans' = [loans EXCEPT ![c.loan] = loan]
                /\ \E rounding \in DecimalRoundings :
                      payments' = [payments EXCEPT
                                     ![c.loan] = generate_payment_schedule(loan, rounding)]
    /\ Return(p)
    /\ UNCHANGED <<offers, today>>
    /\ cache' = CacheDelete(cache, FundLoanInvalidations(procs[p]))

(* ---------------------------- PaymentService --------------------------- *)
\* a make_payment that does not look at the loan's status
MakePaymentReadAnyStatus(l, u) ==
    IF ~LoanExists(l) THEN "LoanNotFound"
    ELSE IF get_loan_by_id(l).borrower # u THEN "Unauthorized"
    ELSE "continue"

MakePaymentReadResult(l, u) ==
    IF ~LoanExists(l) THEN "LoanNotFound"
    ELSE IF get_loan_by_id(l).borrower # u THEN "Unauthorized"
    ELSE IF get_loan_by_id(l).status # "FUNDED" THEN "InvalidState"
    ELSE "continue"

\* PaymentService.make_payment, the read of the loan and the checks on it
MakePaymentRead(p, l, u) ==
    /\ Idle(p)
    /\ IF MakePaymentReadResult(l, u) = "continue"
       THEN Set(p, [IdleRec EXCEPT !.pc = "p2", !.user = u, !.loan = l,
                                   !.rLoan = get_loan_by_id(l)])
       ELSE Return(p)
    /\ UNCHANGED <<loans, offers, payments, wallets, ledger, today, cache>>

\* PaymentRepository.get_next_pending_payment: the payment_number, 0 for None
get_next_pending_payment(l) ==
    LET pending == {n \in DOMAIN payments[l] : payments[l][n].status = "PENDING"}
    IN  IF pending = {} THEN 0
        ELSE CHOOSE n \in pending : \A m \in pending : n <= m

MakePaymentNextResult(l) ==
    IF get_next_pending_payment(l) = 0 THEN "NoPendingPayments" ELSE "continue"

\* make_payment, get_next_pending_payment
MakePaymentNext(p) ==
    /\ procs[p].pc = "p2"
    /\ LET c == procs[p]
           n == get_next_pending_payment(c.loan)
       IN  IF MakePaymentNextResult(c.loan) = "continue"
           THEN Set(p, [c EXCEPT !.pc = "p3",
                          !.rPay = [num |-> n, amount |-> payments[c.loan][n].amount,
                                    due |-> payments[c.loan][n].due]])
           ELSE Return(p)
    /\ UNCHANGED <<loans, offers, payments, wallets, ledger, today, cache>>

\* a make_payment that does not look at the borrower's balance beforehand
MakePaymentCheckSkipped(c) == "continue"

MakePaymentCheckResult(c) ==
    IF ~check_balance(c.user, c.rPay.amount) THEN "InsufficientFunds" ELSE "continue"

\* make_payment, check_balance(borrower, next_payment.amount)
MakePaymentCheck(p) ==
    /\ procs[p].pc = "p3"
    /\ IF MakePaymentCheckResult(procs[p]) = "continue"
       THEN Set(p, [procs[p] EXCEPT !.pc = "p4"])
       ELSE Return(p)
    /\ UNCHANGED <<loans, offers, payments, wallets, ledger, today, cache>>

MakePaymentTransferReadResult(c) == TransferReadResult(c.user, c.rPay.amount)

\* make_payment, transaction.atomic() is entered and transfer_funds reads
\* both wallets
MakePaymentTransferRead(p) ==
    /\ procs[p].pc = "p4"
    /\ LET c == procs[p]
           to == c.rLoan.lender
       IN  /\ CanGetOrCreate(p, to)
           /\ IF MakePaymentTransferReadResult(c) = "continue"
              THEN /\ UNCHANGED wallets
                   /\ Set(p, [c EXCEPT !.pc = "p5",
                                !.rFrom = get_wallet_by_user(c.user),
                                !.rTo = get_or_create_wallet(to),
                                !.creates = Creates(to)])
              ELSE /\ wallets' = WalletsCreated(to)
                   /\ Return(p)
    /\ UNCHANGED <<loans, offers, payments, ledger, today, cache>>

\* Payment.mark_as_paid: save() of every column of the in-memory payment
mark_as_paid(pay, rPay) ==
    [pay EXCEPT !.status = "PAID", !.paid_at = today,
                !.amount = rPay.amount, !.due = rPay.due]

\* PaymentRepository.get_all_payments_for_loan_status, the all_paid entry
all_paid(sched) ==
    LET total == Cardinality(DOMAIN sched)
        paid == Cardinality({n \in DOMAIN sched : sched[n].status = "PAID"})
    IN  paid = total /\ total > 0

\* the loan's payments as the block sees them after mark_payment_as_paid
MakePaymentSchedule(c) ==
    [payments[c.loan] EXCEPT ![c.rPay.num] = mark_as_paid(@, c.rPay)]

\* the loan_completed entry of make_payment's return value
MakePaymentCompleted(c) == all_paid(MakePaymentSchedule(c))

\* make_payment: payment.save() in mark_as_paid fires post_save of Payment,
\* loan.save() in update_loan fires post_save of Loan
MakePaymentInvalidations(c) ==
    invalidate_loan_cache_on_payment_change(c.loan, FALSE)
        \cup (IF MakePaymentCompleted(c)
              THEN invalidate_loan_cache_on_save(c.loan, c.rLoan.borrower, c.rLoan.lender)
              ELSE {})

\* make_payment, the rest of the atomic block: the transfer's writes,
\* mark_payment_as_paid, the recount, update_loan, commit
MakePaymentCommit(p) ==
    /\ procs[p].pc = "p5"
    /\ LET c == procs[p]
           from == c.user
           to == c.rLoan.lender
       IN  /\ wallets' = TransferBalances(wallets, from, to, c.rFrom, c.rTo, c.rPay.amount)
           /\ ledger' = TransferEntries(ledger, from, to, c.rPay.amount,
                                        "LOAN_PAYMENT", PaymentRef(c.loan, c.rPay.num))
           /\ payments' = [payments EXCEPT ![c.loan] = MakePaymentSchedule(c)]
           /\ IF MakePaymentCompleted(c)
              THEN loans' = [loans EXCEPT ![c.loan] =
                       update_loan(c.rLoan, c.rLoan.lender, c.rLoan.rate,
                                   "COMPLETED", c.rLoan.funded_at)]
              ELSE UNCHANGED loans
    /\ Return(p)
    /\ UNCHANGED <<offers, today>>
    /\ cache' = CacheDelete(cache, MakePaymentInvalidations(procs[p]))

(* --------------------------- overdue sweep ----------------------------- *)
\* a queryset that filters on the due date alone
OverdueQueryAnyStatus(day) ==
    UNION {{<<l, n>> : n \in {m \in DOMAIN payments[l] : payments[l][m].due < day}} :
           l \in 1..Len(payments)}

\* a queryset with due_date__lte in place of due_date__lt
OverdueQueryUpTo(day) ==
    UNION {{<<l, n>> : n \in {m \in DOMAIN payments[l] :
                                 /\ payments[l][m].status = "PENDING"
                                 /\ payments[l][m].due <= day}} :
           l \in 1..Len(payments)}

\* the queryset of check_overdue_payments, evaluated now for the date the
\* task read when it started: status = PENDING, due_date < day
OverdueQuery(day) ==
    UNION {{<<l, n>> : n \in {m \in DOMAIN payments[l] :
                                 /\ payments[l][m].status = "PENDING"
                                 /\ payments[l][m].due < day}} :
           l \in 1..Len(payments)}

\* check_overdue_payments, date.today() and overdue_payments.count()
SweepCount(p) ==
    /\ Idle(p)
    /\ IF Cardinality(OverdueQuery(today)) = 0
       THEN Return(p)
       ELSE Set(p, [IdleRec EXCEPT !.pc = "s2", !.day = today,
                                   !.found = Cardinality(OverdueQuery(today))])
    /\ UNCHANGED <<loans, offers, payments, wallets, ledger, today, cache>>

\* check_overdue_payments, the for loop evaluates the queryset once
SweepFetch(p) ==
    /\ procs[p].pc = "s2"
    /\ IF OverdueQuery(procs[p].day) = {}
       THEN Return(p)
       ELSE Set(p, [procs[p] EXCEPT !.pc = "s3", !.snap = OverdueQuery(procs[p].day)])
    /\ UNCHANGED <<loans, offers, payments, wallets, ledger, today, cache>>

\* check_overdue_payments, one iteration: payment.status = 'OVERDUE' and
\* save(update_fields=['status']); the rows come in payment_number order
SweepUpdate(p) ==
    /\ procs[p].pc = "s3"
    /\ LET c == procs[p]
       IN  \E x \in c.snap :
             /\ \A y \in c.snap : x[2] <= y[2]
             /\ payments' = [payments EXCEPT ![x[1]][x[2]].status = "OVERDUE"]
             /\ cache' = CacheDelete(cache, invalidate_loan_cache_on_payment_change(x[1], FALSE))
             /\ IF c.snap = {x}
                THEN Return(p)
                ELSE Set(p, [c EXCEPT !.snap = c.snap \ {x},
                                      !.updated = c.updated + 1])
    /\ UNCHANGED <<loans, offers, wallets, ledger, today>>

\* check_overdue_payments, one iteration whose payment.save() raises: the
\* except clause around the whole task body returns status failed
SweepUpdateFails(p) ==
    /\ procs[p].pc = "s3"
    /\ Return(p)
    /\ UNCHANGED <<loans, offers, payments, wallets, ledger, today, cache>>

(* ------------------------------- clock --------------------------------- *)
\* a month passes; the code reads the clock only once a schedule exists or
\* is being generated, so the months count from the first funding
Tick ==
    /\ today < MaxDay
    /\ \E l \in 1..Len(payments) : payments[l] # <<>>
    /\ today' = today + 1
    /\ UNCHANGED <<loans, offers, payments, wallets, ledger, procs, cache>>

(* ------------------------------- Next ---------------------------------- *)
LoanActions ==
    \E p \in Procs, u \in Users, a \in LoanAmounts, t \in Terms, r \in LoanRates :
        CreateLoan(p, u, a, t, r)

WalletActions ==
    \/ \E p \in Procs, u \in WalletUsers, a \in DepositAmounts : DepositRead(p, u, a)
    \/ \E p \in Procs : DepositCommit(p)
    \/ \E p \in Procs, u \in WalletUsers, a \in WithdrawAmounts : WithdrawRead(p, u, a)
    \/ \E p \in Procs : WithdrawCommit(p)

CreateOfferActions ==
    \/ \E p \in Procs, l \in LoanArgs, u \in Users, r \in OfferRateArgs :
          CreateOfferRead(p, l, u, r)
    \/ \E p \in Procs : CreateOfferCheck(p)
    \/ \E p \in Procs : CreateOfferInsert(p)

AcceptActions ==
    \/ \E p \in Procs, l \in LoanArgs, o \in OfferArgs, u \in Users :
          AcceptOfferRead(p, l, o, u)
    \/ \E p \in Procs : AcceptOfferGet(p)
    \/ \E p \in Procs : AcceptOfferCommit(p)

OfferActions == CreateOfferActions \/ AcceptActions

FundActions ==
    \/ \E p \in Procs, l \in LoanArgs, u \in Users : FundLoanRead(p, l, u)
    \/ \E p \in Procs : FundLoanCheck(p)
    \/ \E p \in Procs : FundLoanTransferRead(p)
    \/ \E p \in Procs : FundLoanCommit(p)

PaymentActions ==
    \/ \E p \in Procs, l \in LoanArgs, u \in Users : MakePaymentRead(p, l, u)
    \/ \E p \in Procs : MakePaymentNext(p)
    \/ \E p \in Procs : MakePaymentCheck(p)
    \/ \E p \in Procs : MakePaymentTransferRead(p)
    \/ \E p \in Procs : MakePaymentCommit(p)

SweepActions ==
    \/ \E p \in Procs : SweepCount(p)
    \/ \E p \in Procs : SweepFetch(p)
    \/ \E p \in Procs : SweepUpdate(p)
    \/ Tick

Next ==
    \/ LoanActions
    \/ WalletActions
    \/ OfferActions
    \/ FundActions
    \/ PaymentActions
    \/ SweepActions

Spec == Init /\ [][Next]_vars

(* ---------------------- the offer book on its own ---------------------- *)
NextOffers == LoanActions \/ OfferActions

SpecOffers == Init /\ [][NextOffers]_vars

(* ------------- the money phase: an accepted loan, no wallets ----------- *)
\* the state SpecOffers reaches by create_loan(b1), create_offer(l1, 0) and
\* accept_offer of that offer, with every handler idle
InitMoney ==
    /\ loans = <<[borrower |-> "b1", lender |-> "l1", amount |-> 1000,
                  term |-> 2, rate |-> 0, status |-> "PENDING_FUNDING",
                  funded_at |-> NoDate]>>
    /\ offers = <<[loan |-> 1, lender |-> "l1", rate |-> 0, accepted |-> TRUE]>>
    /\ payments = << <<>> >>
    /\ wallets = [u \in Users |-> NoWallet]
    /\ ledger = EmptyBag
    /\ today = 0
    /\ cache = <<>>
    /\ procs = [p \in Procs |-> IdleRec]

NextMoney == WalletActions \/ FundActions \/ PaymentActions \/ SweepActions

SpecMoney == InitMoney /\ [][NextMoney]_vars

\* the money handlers alone, no overdue sweep and no passing of days
NextCalls == WalletActions \/ FundActions \/ PaymentActions

SpecCalls == InitMoney /\ [][NextCalls]_vars

(* ------------- accepting offers: two loans, an offer on each ----------- *)
\* two REQUESTED loans of b1, l1's offer on the second and l2's on the first:
\* the state after create_loan(b1) twice, create_offer(2, l1, 0) and
\* create_offer(1, l2, 12), with every handler idle
InitAccept ==
    /\ loans = [l \in {1, 2} |->
                  [borrower |-> "b1", lender |-> NoUser, amount |-> 1000,
                   term |-> 2, rate |-> 12, status |-> "REQUESTED",
                   funded_at |-> NoDate]]
    /\ offers = <<[loan |-> 2, lender |-> "l1", rate |-> 0, accepted |-> FALSE],
                  [loan |-> 1, lender |-> "l2", rate |-> 12, accepted |-> FALSE]>>
    /\ payments = << <<>>, <<>> >>
    /\ wallets = [u \in Users |-> NoWallet]
    /\ ledger = EmptyBag
    /\ today = 0
    /\ cache = <<>>
    /\ procs = [p \in Procs |-> IdleRec]

NextAccept == AcceptActions

SpecAccept == InitAccept /\ [][NextAccept]_vars

(* ------------- the overdue sweep, run by run, on one funded loan ------- *)
SweepDays == 0..4
SweepTerms == {2, 3}
PaymentStatuses == {"PENDING", "PAID", "OVERDUE"}

\* the ledger after make_payment has paid the payments S of loan l
RECURSIVE PaidEntries(_, _, _, _)
PaidEntries(lg, l, amount, S) ==
    IF S = {} THEN lg
    ELSE LET n == CHOOSE m \in S : TRUE
         IN  PaidEntries(TransferEntries(lg, "b1", "l1", amount, "LOAN_PAYMENT",
                                         PaymentRef(l, n)),
                         l, amount, S \ {n})

\* a loan of 1000 at rate 0 that l1 funded on day 0 out of a deposit of 2375,
\* its payments in any status (the paid ones paid on day 0), on any day
InitSweep ==
    /\ \E t \in SweepTerms : \E st \in [1..t -> PaymentStatuses] :
          LET loan == [borrower |-> "b1", lender |-> "l1", amount |-> 1000,
                       term |-> t, rate |-> 0, status |-> "FUNDED", funded_at |-> 0]
              sched == generate_payment_schedule(loan, "ROUND_HALF_EVEN")
              paid == {n \in 1..t : st[n] = "PAID"}
              total == Cardinality(paid) * sched[1].amount
          IN  /\ loans = <<[loan EXCEPT !.status = IF paid = 1..t THEN "COMPLETED"
                                                  ELSE "FUNDED"]>>
              /\ payments = <<[n \in 1..t |->
                                 [sched[n] EXCEPT !.status = st[n],
                                                  !.paid_at = IF st[n] = "PAID"
                                                              THEN 0 ELSE NoDate]]>>
              /\ wallets = [u \in Users |->
                              IF u = "b1" THEN [exists |-> TRUE, balance |-> 1000 - total]
                              ELSE IF u = "l1"
                                   THEN [exists |-> TRUE, balance |-> 1000 + total]
                                   ELSE NoWallet]
              /\ ledger = PaidEntries(
                             create_transaction(
                               TransferEntries(
                                 create_transaction(EmptyBag, "l1", "DEPOSIT", 2375, NoRef),
                                 "l1", "b1", 1000, "LOAN_FUNDING", LoanRef(1)),
                               "l1", "PLATFORM_FEE", 0 - PlatformFee, FeeRef(1)),
                             1, sched[1].amount, paid)
    /\ offers = <<[loan |-> 1, lender |-> "l1", rate |-> 0, accepted |-> TRUE]>>
    /\ today \in SweepDays
    /\ cache = <<>>
    /\ procs = [p \in Procs |-> IdleRec]

\* no other handler is in the middle of a call
Alone(p) == \A q \in Procs \ {p} : Idle(q)

NextSweep ==
    \/ \E p \in Procs : Alone(p) /\ SweepCount(p)
    \/ \E p \in Procs : Alone(p) /\ SweepFetch(p)
    \/ \E p \in Procs : Alone(p) /\ SweepUpdate(p)

SpecSweep == InitSweep /\ [][NextSweep]_vars

\* the same runs where a payment.save() may raise
NextSweepFaulty ==
    \/ NextSweep
    \/ \E p \in Procs : Alone(p) /\ SweepUpdateFails(p)

SpecSweepFaulty == InitSweep /\ [][NextSweepFaulty]_vars

(* ------------- the payment schedule of one loan, by itself ------------- *)
ScheduleAmounts == {1000, 1001, 1003, 100000}
ScheduleTerms == {1, 2, 3, 6}

\* a loan of any of the amounts, terms and rates, funded on some day or not
\* funded at all, and no payment yet
InitSchedule ==
    /\ \E a \in ScheduleAmounts, t \in ScheduleTerms, r \in OfferRates,
          f \in {NoDate} \cup 0..MaxDay, s \in {"PENDING_FUNDING", "FUNDED"} :
          loans = <<[borrower |-> "b1", lender |-> "l1", amount |-> a, term |-> t,
                     rate |-> r, status |-> s, funded_at |-> f]>>
    /\ offers = <<[loan |-> 1, lender |-> "l1", rate |-> loans[1].rate,
                   accepted |-> TRUE]>>
    /\ payments = << <<>> >>
    /\ wallets = [u \in Users |-> NoWallet]
    /\ ledger = EmptyBag
    /\ today \in 0..MaxDay
    /\ cache = <<>>
    /\ procs = [p \in Procs |-> IdleRec]

\* Payment.generate_payment_schedule(loan), called on a loan without payments
GenerateSchedule(l) ==
    /\ payments[l] = <<>>
    /\ \E rounding \in DecimalRoundings :
          payments' = [payments EXCEPT
                         ![l] = generate_payment_schedule(loans[l], rounding)]
    /\ UNCHANGED <<loans, offers, wallets, ledger, today, procs, cache>>

NextSchedule == \E l \in LoanIds : GenerateSchedule(l)

SpecSchedule == InitSchedule /\ [][NextSchedule]_vars

(* ------- the life of a loan: two offers on the table, a funded lender --- *)
\* the state Spec reaches by create_loan(b1), create_offer(l1, 0),
\* create_offer(l2, 12) and deposit_funds(l1, 2375), with every handler idle
InitLife ==
    /\ loans = <<[borrower |-> "b1", lender |-> NoUser, amount |-> 1000,
                  term |-> 2, rate |-> 12, status |-> "REQUESTED",
                  funded_at |-> NoDate]>>
    /\ offers = <<[loan |-> 1, lender |-> "l1", rate |-> 0, accepted |-> FALSE],
                  [loan |-> 1, lender |-> "l2", rate |-> 12, accepted |-> FALSE]>>
    /\ payments = << <<>> >>
    /\ wallets = [u \in Users |-> IF u = "l1" THEN [exists |-> TRUE, balance |-> 2375]
                                               ELSE NoWallet]
    /\ ledger = create_transaction(EmptyBag, "l1", "DEPOSIT", 2375, NoRef)
    /\ today = 0
    /\ cache = <<>>
    /\ procs = [p \in Procs |-> IdleRec]

NextLife == AcceptActions \/ FundActions \/ PaymentActions

SpecLife == InitLife /\ [][NextLife]_vars

TypeOK ==
    /\ \A u \in Users : wallets[u].exists \in BOOLEAN /\ wallets[u].balance \in Int
    /\ today \in 0..MaxDay

(* ============================ properties =============================== *)
\* the offers of loan l that are accepted in the committed store
AcceptedOffers(l) ==
    {o \in 1..Len(offers) : offers[o].loan = l /\ offers[o].accepted}

\* C1: when acceptOffer calls race on distinct offers of one REQUESTED loan,
\* exactly one wins: at most one offer of the loan is ever accepted, and the
\* loan carries the lender and the rate of that offer.
C1_SingleWinner ==
    \A l \in 1..Len(loans) :
        /\ Cardinality(AcceptedOffers(l)) <= 1
        /\ \A o \in AcceptedOffers(l) :
              /\ loans[l].lender = offers[o].lender
              /\ loans[l].rate = offers[o].rate

\* the number of committed Transaction rows of user u with this type, amount
\* and reference
Rows(u, type, amount, ref) ==
    IF Entry(u, type, amount, ref) \in DOMAIN ledger
    THEN ledger[Entry(u, type, amount, ref)] ELSE 0

\* C2: no loan is funded twice: in every committed state the lender of a loan
\* has been debited the principal at most once and the fee at most once, and
\* the borrower has been credited the principal at most once.
C2_FundedOnce ==
    \A l \in 1..Len(loans) :
        /\ Rows(loans[l].lender, "LOAN_FUNDING", 0 - loans[l].amount, LoanRef(l)) <= 1
        /\ Rows(loans[l].borrower, "LOAN_FUNDING", loans[l].amount, LoanRef(l)) <= 1
        /\ Rows(loans[l].lender, "PLATFORM_FEE", 0 - PlatformFee, FeeRef(l)) <= 1

\* every user's balance as get_wallet_balance reports it
Balances == [u \in Users |-> get_wallet_balance(u)]

\* what a caller can observe of the money and of the loans
Observable == <<Balances, ledger, loans, payments>>

\* a step of fund_loan inside its atomic block that ends the call with an error
FundLoanFails(p) ==
    \/ FundLoanTransferRead(p) /\ FundLoanTransferReadResult(procs[p]) # "continue"
    \/ FundLoanCommit(p) /\ FundLoanCommitResult(procs[p]) # "ok"

\* C3: fund_loan is all-or-nothing: a fund_loan that fails inside its atomic
\* block (the transfer, the fee deduction or the schedule) leaves every
\* balance, the ledger, the loan and the payments as they were.
C3_AllOrNothing ==
    [][\A p \in Procs : FundLoanFails(p) => UNCHANGED Observable]_vars

\* C4: in every reachable state every wallet balance is >= 0.
C4_NonNegative ==
    \A u \in Users : wallets[u].balance >= 0

\* a wallet that a transfer and a platform fee or a withdrawal have emptied
C4_Witness ==
    \E u \in Users :
        /\ wallets[u].exists /\ wallets[u].balance = 0
        /\ \E e \in DOMAIN ledger :
              e.user = u /\ e.type \in {"LOAN_FUNDING", "LOAN_PAYMENT"} /\ e.amount < 0

\* the change a committing step makes to the balance of user u
Delta(u) == Balances'[u] - Balances[u]

\* C5: no update of a wallet is lost: every step that commits a deposit, a
\* withdrawal, a transfer or a fee changes each balance it touches by exactly
\* its signed amount, whatever committed since the handler read the wallet.
C5_NoLostUpdate ==
    [][\A p \in Procs :
          /\ DepositCommit(p) => Delta(procs[p].user) = procs[p].amt
          /\ WithdrawCommit(p) => Delta(procs[p].user) = 0 - procs[p].amt
          /\ MakePaymentCommit(p) =>
                /\ Delta(procs[p].user) = 0 - procs[p].rPay.amount
                /\ Delta(procs[p].rLoan.lender) = procs[p].rPay.amount
          /\ (FundLoanCommit(p) /\ FundLoanCommitResult(procs[p]) = "ok") =>
                /\ Delta(procs[p].user) = 0 - (procs[p].rLoan.amount + PlatformFee)
                /\ Delta(procs[p].rLoan.borrower) = procs[p].rLoan.amount
      ]_vars

\* a committed transfer of amount from one user to another: both balances
\* moved by amount and the two rows that share ref were appended
Transferred(from, to, amount, type, ref) ==
    /\ Delta(from) = 0 - amount
    /\ Delta(to) = amount
    /\ ledger' = TransferEntries(ledger, from, to, amount, type, ref)

\* C6: a successful transfer takes exactly amount from the sender, gives
\* exactly amount to the receiver and appends exactly the two ledger rows of
\* -amount and +amount that share the reference, all in one step.
C6_TransferExact ==
    [][\A p \in Procs :
          MakePaymentCommit(p) =>
              Transferred(procs[p].user, procs[p].rLoan.lender, procs[p].rPay.amount,
                          "LOAN_PAYMENT", PaymentRef(procs[p].loan, procs[p].rPay.num))
      ]_vars

\* C7: a payment that is PAID is never set to OVERDUE afterwards.
C7_PaidStaysPaid ==
    [][\A l \in 1..Len(payments) : \A n \in DOMAIN payments[l] :
          payments[l][n].status = "PAID" => payments'[l][n].status # "OVERDUE"
      ]_vars

\* C8: no installment is charged twice: for every payment at most one
\* LOAN_PAYMENT debit of the borrower that references it is committed.
C8_ChargedOnce ==
    \A l \in 1..Len(payments) : \A n \in DOMAIN payments[l] :
        Rows(loans[l].borrower, "LOAN_PAYMENT", 0 - payments[l][n].amount,
             PaymentRef(l, n)) <= 1

\* C9: installments are paid in order: if payment k of a loan is PAID then
\* every payment of the loan with a lower number is PAID.
C9_PaidInOrder ==
    \A l \in 1..Len(payments) : \A k \in DOMAIN payments[l] :
        payments[l][k].status = "PAID" =>
            \A j \in 1..(k - 1) : payments[l][j].status = "PAID"

\* C10: a loan is COMPLETED exactly when it has at least one payment and all
\* of its payments are PAID.
C10_CompletedIffAllPaid ==
    \A l \in 1..Len(loans) :
        loans[l].status = "COMPLETED" <=> all_paid(payments[l])

\* the steps Loan.status may take
StatusSteps ==
    {<<"REQUESTED", "PENDING_FUNDING">>, <<"PENDING_FUNDING", "FUNDED">>,
     <<"FUNDED", "COMPLETED">>}

\* C11: a loan is created REQUESTED and its status only ever changes by one
\* of the steps REQUESTED to PENDING_FUNDING, PENDING_FUNDING to FUNDED, FUNDED
\* to COMPLETED: never backward, never over a step, never once COMPLETED.
C11_StatusSteps ==
    [][/\ \A l \in 1..Len(loans) :
             loans'[l].status # loans[l].status =>
                 <<loans[l].status, loans'[l].status>> \in StatusSteps
       /\ \A l \in (Len(loans) + 1)..Len(loans') : loans'[l].status = "REQUESTED"
      ]_vars

\* C12: every loan has at most one accepted offer; it is REQUESTED exactly
\* when it has no accepted offer and no lender; and a loan that is not
\* REQUESTED carries the lender and the rate of its one accepted offer, a
\* lender who is not its borrower.
C12_AcceptedOffer ==
    \A l \in 1..Len(loans) :
        /\ Cardinality(AcceptedOffers(l)) <= 1
        /\ loans[l].status = "REQUESTED" <=>
              (AcceptedOffers(l) = {} /\ loans[l].lender = NoUser)
        /\ loans[l].status # "REQUESTED" =>
              \E o \in AcceptedOffers(l) :
                  /\ AcceptedOffers(l) = {o}
                  /\ loans[l].lender = offers[o].lender
                  /\ loans[l].rate = offers[o].rate
                  /\ loans[l].lender # loans[l].borrower

C14_OfferOnRequested ==
    [][Len(offers') > Len(offers) =>
          loans[offers'[Len(offers')].loan].status = "REQUESTED"]_vars

\* C15: a withdrawal of more than the wallet's balance fails and leaves the
\* balance and the ledger unchanged; a withdrawal that commits takes exactly
\* its amount from the balance and appends exactly one WITHDRAWAL row.
C15_Withdraw ==
    [][\A p \in Procs :
          /\ \A u \in WalletUsers, a \in WithdrawAmounts :
                (WithdrawRead(p, u, a) /\ wallets[u].exists /\ a > wallets[u].balance)
                    => (UNCHANGED <<wallets, ledger>> /\ procs'[p] = IdleRec)
          /\ WithdrawCommit(p) =>
                /\ Delta(procs[p].user) = 0 - procs[p].amt
                /\ \E e \in DOMAIN ledger' :
                      /\ e.user = procs[p].user /\ e.type = "WITHDRAWAL"
                      /\ ledger' = ledger (+) SetToBag({e})
      ]_vars

\* a transfer_funds call, made by fund_loan or by make_payment, that returns
\* an error
TransferFails(p) ==
    \/ FundLoanTransferRead(p) /\ FundLoanTransferReadResult(procs[p]) # "continue"
    \/ MakePaymentTransferRead(p) /\ MakePaymentTransferReadResult(procs[p]) # "continue"

\* C16: a transfer that fails mutates nothing: no balance changes, no ledger
\* row is appended and no wallet is created for the receiver.
C16_FailedTransferNoMutation ==
    [][\A p \in Procs : TransferFails(p) => UNCHANGED <<wallets, ledger>>]_vars

\* the call of handler p ends in this step and the store is as it was
Rejected(p) == UNCHANGED store /\ procs'[p] = IdleRec

C18_FundLoanEffects ==
    [][\A p \in Procs :
          (FundLoanCommit(p) /\ FundLoanCommitResult(procs[p]) = "ok") =>
              LET l      == procs[p].loan
                  loan   == procs[p].rLoan
                  lender == procs[p].user
              IN  /\ Balances'[lender] = Balances[lender] - (loan.amount + PlatformFee)
                  /\ Balances'[loan.borrower] = Balances[loan.borrower] + loan.amount
                  /\ ledger' = create_transaction(
                                 TransferEntries(ledger, lender, loan.borrower,
                                                 loan.amount, "LOAN_FUNDING", LoanRef(l)),
                                 lender, "PLATFORM_FEE", 0 - PlatformFee, FeeRef(l))
                  /\ loans'[l].status = "FUNDED"
                  /\ loans'[l].funded_at = today
                  /\ Len(payments'[l]) = loan.term
      ]_vars

\* the day the schedule of loan l counts from
FundingDate(l) == IF loans[l].funded_at # NoDate THEN loans[l].funded_at ELSE today

\* C19: the generated schedule has term_months payments numbered
\* 1..term_months, each PENDING, each of the loan's monthly_payment, payment i
\* due i months after the funding date (after today when funded_at is unset),
\* so the due dates strictly increase.
C19_Schedule ==
    \A l \in 1..Len(loans) :
        payments[l] # <<>> =>
            /\ DOMAIN payments[l] = 1..loans[l].term
            /\ \A i \in DOMAIN payments[l] :
                  /\ payments[l][i].status = "PENDING"
                  /\ LET m == monthly_payment(loans[l].amount, loans[l].rate,
                                               loans[l].term)
                     IN  payments[l][i].amount * m.den = m.num
                  /\ payments[l][i].due = FundingDate(l) + i
            /\ \A i, j \in DOMAIN payments[l] :
                  i < j => payments[l][i].due < payments[l][j].due

\* C20: make_payment fails and leaves wallets, ledger, payments and loan as
\* they were when the loan does not exist, when the caller is not its
\* borrower, when its status is not FUNDED, when it has no PENDING payment,
\* and when the borrower holds less than the amount of the payment to make.
C20_MakePaymentRejects ==
    [][\A p \in Procs :
          /\ \A l \in LoanArgs, u \in Users :
                /\ ~LoanExists(l) => MakePaymentReadResult(l, u) = "LoanNotFound"
                /\ (LoanExists(l) /\ get_loan_by_id(l).borrower # u) =>
                      MakePaymentReadResult(l, u) = "Unauthorized"
                /\ (LoanExists(l) /\ get_loan_by_id(l).borrower = u
                       /\ get_loan_by_id(l).status # "FUNDED") =>
                      MakePaymentReadResult(l, u) = "InvalidState"
                /\ (MakePaymentRead(p, l, u) /\ MakePaymentReadResult(l, u) # "continue")
                      => Rejected(p)
          /\ (MakePaymentNext(p)
                /\ \A n \in DOMAIN payments[procs[p].loan] :
                      payments[procs[p].loan][n].status # "PENDING")
                => Rejected(p) /\ MakePaymentNextResult(procs[p].loan) = "NoPendingPayments"
          /\ (MakePaymentCheck(p)
                /\ get_wallet_balance(procs[p].user) < procs[p].rPay.amount)
                => Rejected(p) /\ MakePaymentCheckResult(procs[p]) = "InsufficientFunds"
          /\ (MakePaymentTransferRead(p)
                /\ get_wallet_balance(procs[p].user) < procs[p].rPay.amount)
                => Rejected(p)
      ]_vars

\* a make_payment has read the payment to make and stands before its balance
\* check while the borrower's wallet holds less than that payment
C20_Witness ==
    \E p \in Procs :
        /\ procs[p].pc = "p3"
        /\ wallets[procs[p].user].exists
        /\ wallets[procs[p].user].balance < procs[p].rPay.amount

\* the payments of loan l that are not PAID
Unpaid(l) == {n \in DOMAIN payments[l] : payments[l][n].status # "PAID"}

\* C21: a make_payment that succeeds moves exactly the payment's amount from
\* the borrower to the lender, marks the payment PAID with paid_at, and
\* reports loan_completed exactly when the payment was the last unpaid one,
\* the loan then being COMPLETED; otherwise the loan stays FUNDED.
C21_MakePaymentEffects ==
    [][\A p \in Procs :
          MakePaymentCommit(p) =>
              LET c == procs[p]
                  l == c.loan
                  n == c.rPay.num
              IN  /\ Balances'[c.user] = Balances[c.user] - c.rPay.amount
                  /\ Balances'[c.rLoan.lender] = Balances[c.rLoan.lender] + c.rPay.amount
                  /\ payments'[l][n].status = "PAID"
                  /\ payments'[l][n].paid_at = today
                  /\ MakePaymentCompleted(c) <=> Unpaid(l) = {n}
                  /\ loans'[l].status =
                        IF MakePaymentCompleted(c) THEN "COMPLETED" ELSE "FUNDED"
      ]_vars

\* every installment of loan l has been paid
FinalPaid(l) == payments[l] # <<>> /\ Unpaid(l) = {}

\* C22: once the final installment of a loan has been paid, a further
\* make_payment of its borrower fails with the error of a loan that is not
\* FUNDED, before it looks for a pending payment; MakePaymentRead then
\* returns and changes no state.
C22_AfterFinalInvalidState ==
    \A l \in 1..Len(loans) :
        FinalPaid(l) =>
            MakePaymentReadResult(l, get_loan_by_id(l).borrower) = "InvalidState"

\* C22 as stated: that call gets as far as looking for a pending payment and
\* fails with the no pending payment error.
C22_AfterFinalNoPending ==
    \A l \in 1..Len(loans) :
        FinalPaid(l) =>
            /\ MakePaymentReadResult(l, get_loan_by_id(l).borrower) = "continue"
            /\ MakePaymentNextResult(l) = "NoPendingPayments"

\* the final installment of a loan has been paid and a handler is free to
\* take the borrower's next call
C22_Witness ==
    \E l \in 1..Len(loans), p \in Procs :
        FinalPaid(l) /\ loans[l].status = "COMPLETED" /\ Idle(p)

\* C23: create_offer fails and inserts no offer when the caller is not a
\* lender, when the loan is not REQUESTED, when the caller is the loan's
\* borrower, when the rate is outside [0, 50], and when the lender already
\* has an offer on the loan; otherwise it inserts one offer with that rate,
\* not accepted, and changes nothing else.
C23_CreateOffer ==
    [][\A p \in Procs :
          /\ \A l \in LoanArgs, u \in Users, r \in OfferRateArgs :
                /\ role(u) # "LENDER" => CreateOfferViewResult(u, r) = "RolePermission"
                /\ (role(u) = "LENDER" /\ (r < 0 \/ r > 50)) =>
                      CreateOfferViewResult(u, r) = "ValidationError"
                /\ (role(u) = "LENDER" /\ LoanExists(l)
                       /\ get_loan_by_id(l).status # "REQUESTED") =>
                      CreateOfferReadResult(l, u) = "InvalidState"
                /\ (LoanExists(l) /\ get_loan_by_id(l).borrower = u) =>
                      \/ CreateOfferViewResult(u, r) # "continue"
                      \/ CreateOfferReadResult(l, u) # "continue"
                /\ (CreateOfferRead(p, l, u, r)
                       /\ (\/ CreateOfferViewResult(u, r) # "continue"
                           \/ CreateOfferReadResult(l, u) # "continue"))
                      => Rejected(p)
                /\ (CreateOfferRead(p, l, u, r) /\ procs'[p].pc = "co2") =>
                      /\ UNCHANGED store
                      /\ r >= 0 /\ r <= 50 /\ procs'[p].rate = r
          /\ (CreateOfferCheck(p) /\ check_existing_offer(procs[p].loan, procs[p].user))
                => Rejected(p)
          /\ CreateOfferInsert(p) =>
                IF check_existing_offer(procs[p].loan, procs[p].user)
                THEN Rejected(p)
                ELSE /\ offers' = Append(offers, [loan |-> procs[p].loan,
                                                  lender |-> procs[p].user,
                                                  rate |-> procs[p].rate,
                                                  accepted |-> FALSE])
                     /\ UNCHANGED <<loans, payments, wallets, ledger>>
                     /\ procs'[p] = IdleRec
      ]_vars

\* a create_offer stands before its check for an earlier offer while the
\* same lender's offer on the loan has been inserted
C23_Witness ==
    \E p \in Procs :
        procs[p].pc = "co2" /\ check_existing_offer(procs[p].loan, procs[p].user)

\* C24: accept_offer fails and changes neither the loan nor any offer when
\* the caller does not own the loan (Unauthorized), when the loan is not
\* REQUESTED (InvalidState), when the offer does not exist or is an offer on
\* another loan (NotFound), and when the offer is already accepted
\* (AlreadyAccepted).
C24_AcceptOfferRejects ==
    [][\A p \in Procs :
          /\ \A l \in LoanArgs, o \in OfferArgs, u \in Users :
                /\ (LoanExists(l) /\ get_loan_by_id(l).borrower # u) =>
                      AcceptOfferReadResult(l, u) = "Unauthorized"
                /\ (LoanExists(l) /\ get_loan_by_id(l).borrower = u
                       /\ get_loan_by_id(l).status # "REQUESTED") =>
                      AcceptOfferReadResult(l, u) = "InvalidState"
                /\ o \notin 1..Len(offers) => AcceptOfferViewResult(o) = "OfferNotFound"
                /\ (o \in 1..Len(offers) /\ offers[o].accepted) =>
                      AcceptOfferViewResult(o) = "AlreadyAccepted"
                /\ (AcceptOfferRead(p, l, o, u)
                       /\ (\/ AcceptOfferViewResult(o) # "continue"
                           \/ AcceptOfferReadResult(l, u) # "continue"))
                      => Rejected(p)
          /\ (AcceptOfferGet(p)
                /\ (\/ procs[p].offer \notin 1..Len(offers)
                    \/ offers[procs[p].offer].loan # procs[p].loan))
                => /\ Rejected(p)
                   /\ AcceptOfferGetResult(procs[p].loan, procs[p].offer) = "OfferNotFound"
          /\ (AcceptOfferGet(p)
                /\ procs[p].offer \in 1..Len(offers)
                /\ offers[procs[p].offer].loan = procs[p].loan
                /\ offers[procs[p].offer].accepted)
                => /\ Rejected(p)
                   /\ AcceptOfferGetResult(procs[p].loan, procs[p].offer) = "AlreadyAccepted"
      ]_vars

\* an accept_offer has passed the checks on its loan and names an offer that
\* was made on another loan
C24_Witness ==
    \E p \in Procs :
        /\ procs[p].pc = "a2"
        /\ procs[p].offer \in 1..Len(offers)
        /\ offers[procs[p].offer].loan # procs[p].loan

\* the payments that are PENDING and due before today
PastDue ==
    UNION {{<<l, n>> : n \in {m \in DOMAIN payments[l] :
                                 /\ payments[l][m].status = "PENDING"
                                 /\ payments[l][m].due < today}} :
           l \in 1..Len(payments)}

\* a step of the sweep of handler p that ends its run
SweepEnds(p) ==
    /\ SweepCount(p) \/ SweepFetch(p) \/ SweepUpdate(p)
    /\ procs'[p] = IdleRec

\* C25: the sweep is idempotent.  When a run ends no payment is left PENDING
\* and past due and the queryset of the next run on the same day counts zero
\* rows, so that run returns at once: the state after two runs is the state
\* after one.
C25_SweepIdempotent ==
    [][\A p \in Procs :
          SweepEnds(p) =>
              /\ PastDue' = {}
              /\ Cardinality(OverdueQuery(today))' = 0
      ]_vars

\* the last row of a run that has already set a payment OVERDUE
C25_Witness ==
    \E p \in Procs :
        procs[p].pc = "s3" /\ procs[p].updated >= 1 /\ Cardinality(procs[p].snap) = 1

\* C26: a sweep that runs alone sets OVERDUE exactly the payments that were
\* PENDING and due before today: every row it still has to update is one of
\* them, each update changes the status of one of them and nothing else, the
\* run ends with none of them left, and loans, wallets and ledger stay as
\* they were.
C26_SweepFrame ==
    [][\A p \in Procs :
          /\ procs[p].pc = "s3" => procs[p].snap = PastDue
          /\ (SweepCount(p) \/ SweepFetch(p)) => UNCHANGED store
          /\ SweepUpdate(p) =>
                /\ \E x \in PastDue :
                      payments' = [payments EXCEPT ![x[1]][x[2]].status = "OVERDUE"]
                /\ UNCHANGED <<loans, offers, wallets, ledger>>
          /\ SweepEnds(p) => PastDue' = {}
      ]_vars

\* a run is updating while the loan has a paid payment and a pending one that
\* is not yet past due
C26_Witness ==
    \E p \in Procs, l \in 1..Len(payments) :
        /\ procs[p].pc = "s3"
        /\ \E n \in DOMAIN payments[l] : payments[l][n].status = "PAID"
        /\ \E n \in DOMAIN payments[l] :
              payments[l][n].status = "PENDING" /\ payments[l][n].due >= today

\* C27: a row whose update fails is skipped, the run goes on with the other
\* selected rows.
C27_RowFailureIsolated ==
    [][\A p \in Procs :
          (SweepUpdateFails(p) /\ Cardinality(procs[p].snap) > 1) =>
              /\ procs'[p].pc = "s3"
              /\ procs'[p].snap # {}
              /\ procs'[p].snap \subseteq procs[p].snap
      ]_vars

\* the sum of amount times the number of rows over the ledger entries S
RECURSIVE SumRows(_)
SumRows(S) ==
    IF S = {} THEN 0
    ELSE LET e == CHOOSE x \in S : TRUE
         IN  e.amount * ledger[e] + SumRows(S \ {e})

\* the signed amounts of all ledger rows that carry reference_id ref
RefSum(ref) == SumRows({e \in DOMAIN ledger : e.ref = ref})

\* C28: the rows of every reference_id of a transfer (loan_<id> of a funding,
\* payment_<id> of a payment) sum to zero; a fee reference loan_<id>_fee
\* carries only PLATFORM_FEE rows of -fee on the lender's wallet, which no
\* row offsets.
C28_TransferRefsBalance ==
    \A e \in DOMAIN ledger :
        /\ e.ref.kind \in {"loan", "payment"} => RefSum(e.ref) = 0
        /\ e.ref.kind = "loan_fee" =>
              /\ e.type = "PLATFORM_FEE"
              /\ e.amount = 0 - PlatformFee
              /\ RefSum(e.ref) = (0 - PlatformFee) * ledger[e]

\* C28 as stated: the rows of every reference_id sum to zero.
C28_ZeroSum ==
    \A e \in DOMAIN ledger : e.ref # NoRef => RefSum(e.ref) = 0

\* the ledger holds the rows of a funding, of its fee and of a payment
C28_Witness ==
    /\ \E e \in DOMAIN ledger : e.ref.kind = "loan"
    /\ \E e \in DOMAIN ledger : e.ref.kind = "loan_fee"
    /\ \E e \in DOMAIN ledger : e.ref.kind = "payment"

PaymentSteps == {<<"PENDING", "PAID">>, <<"PENDING", "OVERDUE">>}

\* C29: the status of a payment only changes from PENDING to PAID or from
\* PENDING to OVERDUE; an OVERDUE payment is never PAID or PENDING later.
C29_PaymentSteps ==
    [][\A l \in 1..Len(payments) : \A n \in DOMAIN payments[l] :
          (n \in DOMAIN payments'[l] /\ payments'[l][n].status # payments[l][n].status)
              => <<payments[l][n].status, payments'[l][n].status>> \in PaymentSteps
      ]_vars

\* C30: payments are generated once, at funding: a REQUESTED or
\* PENDING_FUNDING loan has none, a FUNDED or COMPLETED loan has payments
\* 1..term_months, and once a loan has payments no step adds or removes one
\* or changes an amount or a due date.
C30_GeneratedOnce ==
    [][/\ \A l \in 1..Len(loans) :
            /\ loans[l].status \in {"REQUESTED", "PENDING_FUNDING"} => payments[l] = <<>>
            /\ loans[l].status \in {"FUNDED", "COMPLETED"} =>
                  DOMAIN payments[l] = 1..loans[l].term
       /\ \A l \in 1..Len(payments) :
            payments[l] # <<>> =>
                /\ DOMAIN payments'[l] = DOMAIN payments[l]
                /\ \A n \in DOMAIN payments[l] :
                      /\ payments'[l][n].amount = payments[l][n].amount
                      /\ payments'[l][n].due = payments[l][n].due
      ]_vars

\* C33: withdraw for a user who has no wallet fails with 'Wallet not found'
\* and creates neither a wallet nor a ledger row.
C33_WithdrawNoWallet ==
    [][\A p \in Procs, u \in WalletUsers, a \in WithdrawAmounts :
          /\ get_wallet_by_user(u) = NoWallet =>
                WithdrawReadResult(u, a) = "WalletNotFound"
          /\ (WithdrawRead(p, u, a) /\ WithdrawReadResult(u, a) = "WalletNotFound")
                => Rejected(p)
      ]_vars

\* the borrower has no wallet while the lender has one that a withdrawal could
\* be made from, and no handler is running
C33_Witness ==
    /\ wallets["b1"] = NoWallet
    /\ wallets["l1"].exists /\ wallets["l1"].balance > 0
    /\ \A p \in Procs : Idle(p)

\* the number of rows of user u's wallet that carry a reference to loan l
LoanEntries(lg, u, l) ==
    BagCardinality([e \in {x \in DOMAIN lg : x.user = u /\ x.ref.kind # "none"
                                              /\ x.ref.loan = l} |-> lg[e]])

\* the rows a step appends to the ledger
Appended == BagCardinality(ledger') - BagCardinality(ledger)

\* no step modifies or removes a row, and each wallet operation appends the
\* rows it is said to append
AppendOnlySteps ==
    /\ \A e \in DOMAIN ledger : e \in DOMAIN ledger' /\ ledger'[e] >= ledger[e]
    /\ \A p \in Procs :
          /\ (DepositCommit(p) \/ WithdrawCommit(p)) => Appended = 1
          /\ FundLoanCommit(p) =>
                Appended = (CASE FundLoanCommitResult(procs[p]) = "ok" -> 3
                              [] FundLoanCommitResult(procs[p]) = "InsufficientFundsFee" -> 2
                              [] OTHER -> 0)
          /\ MakePaymentCommit(p) => Appended = 2
          /\ TransferFails(p) => Appended = 0

\* the wallets of a COMPLETED loan's lender and borrower hold term_months + 2
\* and term_months + 1 rows of that loan
LifecycleEntries ==
    \A l \in 1..Len(loans') :
        loans'[l].status = "COMPLETED" =>
            /\ LoanEntries(ledger', loans'[l].lender, l) = loans'[l].term + 2
            /\ LoanEntries(ledger', loans'[l].borrower, l) = loans'[l].term + 1

\* C34: the ledger is append-only: a successful deposit, withdraw or
\* deduct_platform_fee appends exactly one row, a successful transfer exactly
\* two, a failed operation none, and no row is modified or removed; hence
\* after the complete lifecycle of a loan with n installments the lender's
\* wallet has n + 2 rows of it and the borrower's n + 1.
C34_AppendOnly == [][AppendOnlySteps /\ LifecycleEntries]_vars

(* ---------------- the money handlers, one call at a time --------------- *)
\* every call runs from its first step to its return before the next begins
NextSerial ==
    \/ \E p \in Procs, u \in WalletUsers, a \in DepositAmounts :
          Alone(p) /\ DepositRead(p, u, a)
    \/ \E p \in Procs : Alone(p) /\ DepositCommit(p)
    \/ \E p \in Procs, u \in WalletUsers, a \in WithdrawAmounts :
          Alone(p) /\ WithdrawRead(p, u, a)
    \/ \E p \in Procs : Alone(p) /\ WithdrawCommit(p)
    \/ \E p \in Procs, l \in LoanArgs, u \in Users : Alone(p) /\ FundLoanRead(p, l, u)
    \/ \E p \in Procs : Alone(p) /\ FundLoanCheck(p)
    \/ \E p \in Procs : Alone(p) /\ FundLoanTransferRead(p)
    \/ \E p \in Procs : Alone(p) /\ FundLoanCommit(p)
    \/ \E p \in Procs, l \in LoanArgs, u \in Users : Alone(p) /\ MakePaymentRead(p, l, u)
    \/ \E p \in Procs : Alone(p) /\ MakePaymentNext(p)
    \/ \E p \in Procs : Alone(p) /\ MakePaymentCheck(p)
    \/ \E p \in Procs : Alone(p) /\ MakePaymentTransferRead(p)
    \/ \E p \in Procs : Alone(p) /\ MakePaymentCommit(p)

SpecSerial == InitMoney /\ [][NextSerial]_vars

\* the sum of the amount column over the rows of user u's wallet
LedgerSum(u) == SumRows({e \in DOMAIN ledger : e.user = u})

\* C37: ledger and balance agree: with the operations run one at a time,
\* every wallet's balance equals the sum of the signed amounts of the ledger
\* rows of that wallet.
C37_LedgerMatchesBalance ==
    \A u \in Users : wallets[u].exists => wallets[u].balance = LedgerSum(u)

(* ------------------- transfer_funds called on its own ------------------ *)
TransferAmounts == {1000}
MaxTransfers == 2

\* committed and in-flight direct transfers
Transfers ==
    BagCardinality([e \in {x \in DOMAIN ledger : x.type = "LOAN_FUNDING" /\ x.ref = NoRef
                                                  /\ x.amount < 0} |-> ledger[e]])
    + Cardinality({q \in Procs : procs[q].pc = "t2"})

\* WalletService.transfer_funds called directly: the atomic block is entered,
\* both wallets are read and the checks are made; on an error result the
\* return from inside the block commits the receiver's new wallet
TransferFundsRead(p, from, to, amount) ==
    /\ Idle(p)
    /\ Transfers < MaxTransfers
    /\ CanGetOrCreate(p, to)
    /\ IF TransferReadResult(from, amount) = "continue"
       THEN /\ UNCHANGED wallets
            /\ Set(p, [IdleRec EXCEPT !.pc = "t2", !.user = from, !.to = to,
                                      !.amt = amount,
                                      !.rFrom = get_wallet_by_user(from),
                                      !.rTo = get_or_create_wallet(to),
                                      !.creates = Creates(to)])
       ELSE /\ wallets' = WalletsCreated(to)
            /\ Return(p)
    /\ UNCHANGED <<loans, offers, payments, ledger, today, cache>>

\* transfer_funds, the two update_balance calls, the two create_transaction
\* calls with the default transaction_type and no reference_id, commit
TransferFundsCommit(p) ==
    /\ procs[p].pc = "t2"
    /\ LET c == procs[p]
       IN  /\ wallets' = TransferBalances(wallets, c.user, c.to, c.rFrom, c.rTo, c.amt)
           /\ ledger' = TransferEntries(ledger, c.user, c.to, c.amt,
                                        "LOAN_FUNDING", NoRef)
    /\ Return(p)
    /\ UNCHANGED <<loans, offers, payments, today, cache>>

\* the money handlers and transfer_funds, one call at a time
NextTransfer ==
    \/ NextSerial
    \/ \E p \in Procs, from \in WalletUsers, to \in WalletUsers, a \in TransferAmounts :
          Alone(p) /\ TransferFundsRead(p, from, to, a)
    \/ \E p \in Procs : Alone(p) /\ TransferFundsCommit(p)

SpecTransfer == InitMoney /\ [][NextTransfer]_vars

RECURSIVE SumBalances(_)
SumBalances(S) ==
    IF S = {} THEN 0
    ELSE LET u == CHOOSE x \in S : TRUE
         IN  get_wallet_balance(u) + SumBalances(S \ {u})

\* the sum of all wallet balances
TotalBalance == SumBalances(Users)

\* a step of a transfer_funds call, made directly or by fund_loan or
\* make_payment
TransferStep(p) ==
    \/ \E from \in WalletUsers, to \in WalletUsers, a \in TransferAmounts :
          TransferFundsRead(p, from, to, a)
    \/ TransferFundsCommit(p)
    \/ FundLoanTransferRead(p)
    \/ MakePaymentTransferRead(p)
    \/ MakePaymentCommit(p)

\* C38: transfers neither create nor destroy money: every transfer, successful
\* or failed, also one whose sender and receiver are the same user, leaves the
\* sum of all wallet balances unchanged; the sum changes only by +amount on a
\* deposit, -amount on a withdrawal and -fee on deduct_platform_fee.
C38_Conservation ==
    [][\A p \in Procs :
          /\ TransferStep(p) => TotalBalance' = TotalBalance
          /\ DepositCommit(p) => TotalBalance' = TotalBalance + procs[p].amt
          /\ WithdrawCommit(p) => TotalBalance' = TotalBalance - procs[p].amt
          /\ FundLoanCommit(p) =>
                TotalBalance' = TotalBalance -
                    (IF FundLoanCommitResult(procs[p]) = "ok" THEN PlatformFee ELSE 0)
      ]_vars

\* C39: the lender never gets back less than the principal: term_months times
\* the installment amount stored on the schedule is at least loan.amount, and
\* equals loan.amount when the rate is 0.
C39_PrincipalReturned ==
    \A l \in 1..Len(loans) :
        \A i \in DOMAIN payments[l] :
            /\ loans[l].term * payments[l][i].amount >= loans[l].amount
            /\ loans[l].rate = 0 =>
                  loans[l].term * payments[l][i].amount = loans[l].amount

\* the users whose wallets the LOAN_FUNDING transfer of loan l debited
Funders(lg, l) ==
    {e.user : e \in {x \in DOMAIN lg : x.type = "LOAN_FUNDING" /\ x.amount < 0
                                        /\ x.ref = LoanRef(l)}}

\* the users whose wallets the LOAN_PAYMENT transfers of loan l credited
Repaid(lg, l) ==
    {e.user : e \in {x \in DOMAIN lg : x.type = "LOAN_PAYMENT" /\ x.amount > 0
                                        /\ x.ref.kind = "payment" /\ x.ref.loan = l}}

\* C35: repayments go to the funder: under any interleaving of accept_offer,
\* fund_loan and make_payment every LOAN_PAYMENT transfer of a loan credits
\* the wallet of the user whose wallet its LOAN_FUNDING transfer debited, and
\* loan.lender never changes once set.
C35_RepaidToFunder ==
    [][\A l \in 1..Len(loans) :
          /\ loans[l].lender # NoUser => loans'[l].lender = loans[l].lender
          /\ \A u \in Repaid(ledger', l) : Funders(ledger', l) = {u}
      ]_vars

(* ---------------- repaying a funded loan while days pass --------------- *)
\* a loan of 15.00 over three months at rate 0 after deposit_funds(l1, 18.75)
\* and fund_loan(1, l1): FUNDED on day 0, the three payments PENDING, and the
\* borrower holding the principal, which covers every installment
InitRepay ==
    /\ loans = <<[borrower |-> "b1", lender |-> "l1", amount |-> 1500,
                  term |-> 3, rate |-> 0, status |-> "FUNDED", funded_at |-> 0]>>
    /\ offers = <<[loan |-> 1, lender |-> "l1", rate |-> 0, accepted |-> TRUE]>>
    /\ payments = << generate_payment_schedule(loans[1], "ROUND_HALF_EVEN") >>
    /\ wallets = [u \in Users |->
                    IF u = "b1" THEN [exists |-> TRUE, balance |-> 1500]
                    ELSE IF u = "l1" THEN [exists |-> TRUE, balance |-> 0]
                    ELSE NoWallet]
    /\ ledger = create_transaction(
                    TransferEntries(
                        create_transaction(EmptyBag, "l1", "DEPOSIT", 1875, NoRef),
                        "l1", "b1", 1500, "LOAN_FUNDING", LoanRef(1)),
                    "l1", "PLATFORM_FEE", 0 - PlatformFee, FeeRef(1))
    /\ today = 0
    /\ cache = <<>>
    /\ procs = [p \in Procs |-> IdleRec]

\* the borrower's client, which calls make_payment on the loan again and again
RepaySteps ==
    \/ MakePaymentRead(1, 1, "b1")
    \/ MakePaymentNext(1)
    \/ MakePaymentCheck(1)
    \/ MakePaymentTransferRead(1)
    \/ MakePaymentCommit(1)

\* the scheduler's worker, which runs check_overdue_payments
SweepSteps ==
    \/ SweepCount(2)
    \/ SweepFetch(2)
    \/ SweepUpdate(2)

NextRepay == RepaySteps \/ SweepSteps \/ Tick

\* the borrower keeps calling: a step of make_payment that stays possible is
\* taken, whatever the sweep and the calendar do
SpecRepay == InitRepay /\ [][NextRepay]_vars /\ WF_vars(RepaySteps)

\* C36: every funded loan can be repaid: when the borrower always holds the
\* installment amount and keeps calling make_payment, a FUNDED loan eventually
\* is COMPLETED, also when the overdue sweep runs between the payments.
C36_EventuallyCompleted ==
    (loans[1].status = "FUNDED") ~> (loans[1].status = "COMPLETED")

(* -------------------- the handlers beside a live cache ----------------- *)
\* LoanService.get_loan_details, the lookup in the cache and, on a miss, the
\* read of the loan from the repository
GetLoanDetailsRead(p, l) ==
    /\ Idle(p)
    /\ IF LoanDetailKey(l) \in DOMAIN cache \/ ~LoanExists(l)
       THEN Return(p)
       ELSE Set(p, [IdleRec EXCEPT !.pc = "g2", !.loan = l,
                                   !.rLoan = get_loan_by_id(l)])
    /\ UNCHANGED <<loans, offers, payments, wallets, ledger, today, cache>>

\* get_loan_details, LoanCache.set_loan_detail of the loan that was read
GetLoanDetailsSet(p) ==
    /\ procs[p].pc = "g2"
    /\ cache' = CacheSet(cache, LoanDetailKey(procs[p].loan), procs[p].rLoan)
    /\ Return(p)
    /\ UNCHANGED <<loans, offers, payments, wallets, ledger, today>>

CacheActions ==
    \/ \E p \in Procs, l \in LoanArgs : GetLoanDetailsRead(p, l)
    \/ \E p \in Procs : GetLoanDetailsSet(p)

\* the loan of InitLife with its two offers, the handlers that accept, fund
\* and repay it, and the loan detail view that fills the cache
NextCache == NextLife \/ CacheActions

SpecCache == InitLife /\ [][NextCache]_vars

\* C32: every fund_loan that succeeds emits, before it returns, the
\* invalidations for the funded loan and for the borrower and the lender of
\* that loan: the keys are among those it deletes, and none of them is in the
\* cache when it returns.
C32_FundLoanInvalidates ==
    [][\A p \in Procs :
          (FundLoanCommit(p) /\ FundLoanCommitResult(procs[p]) = "ok") =>
              LET c == procs[p]
                  keys == {LoanDetailKey(c.loan), UserLoansKey(c.rLoan.borrower),
                           UserLoansKey(loans'[c.loan].lender)}
              IN  /\ keys \subseteq FundLoanInvalidations(c)
                  /\ keys \cap DOMAIN cache' = {}
      ]_vars

\* a fund_loan is about to commit with success while the cache holds the
\* detail entry of its loan
C32_Witness ==
    \E p \in Procs :
        /\ procs[p].pc = "f4"
        /\ FundLoanCommitResult(procs[p]) = "ok"
        /\ LoanDetailKey(procs[p].loan) \in DOMAIN cache

\* the loan row of the durable store
LoanRow(l) == IF l \in 1..Len(loans) THEN loans[l] ELSE NoLoanRec

\* the cache holds a detail entry of loan l that differs from the loan's row
Stale(l) == LoanDetailKey(l) \in DOMAIN cache /\ cache[LoanDetailKey(l)] # LoanRow(l)

WithinHalfCent(cents, num, den) ==
    LET cd == BigMul(BigOfInt(cents), den)
    IN  IF BigLeq(num, cd) THEN BigLeq(BigMulDigit(BigSub(cd, num), 2, 0), den)
        ELSE BigLeq(BigMulDigit(BigSub(num, cd), 2, 0), den)

\* C31: monthly_payment is amount*r*(1+r)^n / ((1+r)^n - 1) with
\* r = rate/100/12, rounded to 2 decimal places, and amount/term_months when
\* r = 0; amount 1000.00 at 12 percent over 6 months gives 172.55 within 0.01.
C31_MonthlyPayment ==
    \A l \in 1..Len(loans) :
        payments[l] # <<>> =>
            LET amount == loans[l].amount
                rate == loans[l].rate
                term == loans[l].term
                m == monthly_payment(amount, rate, term)
            IN  /\ rate = 0 => m.num * term = amount * m.den
                /\ rate # 0 =>
                      /\ m.den = 1
                      /\ WithinHalfCent(m.num, AmortizationNum(amount, rate, term),
                                        AmortizationDen(rate, term))
                /\ (amount = 100000 /\ rate = 12 /\ term = 6) =>
                      (m.num >= 17254 /\ m.num <= 17256)

\* the schedule of the loan of 1000.00 at 12 percent over 6 months has been
\* generated with installments of 172.55
C31_Witness ==
    /\ loans[1].amount = 100000 /\ loans[1].rate = 12 /\ loans[1].term = 6
    /\ payments[1] # <<>>
    /\ payments[1][1].amount = 17255

====
